---- MODULE Spec2Model ----
(***************************************************************************)
(* The single-consumer job queue of the Chatterbox TTS API (src/app.py):   *)
(* request handlers create a TTSJob with a future, put it on job_queue and *)
(* wait for the future under a timeout; queue_consumer takes one job at a  *)
(* time, runs process_job and resolves the future.  Further parts: the     *)
(* validation of requests by the endpoints, the loop of _process_batch_job *)
(* and the text chunker (_chunk_text_smartly and its helpers).             *)
(***************************************************************************)
EXTENDS Integers, Sequences, FiniteSets, TLC

\* Number of jobs submitted during one run of the service.
MaxJobs == 3

Jobs == 1..MaxJobs

\* Sentinel for "the worker holds no job".
NoJob == 0

VARIABLES
    job_queue,             \* asyncio.Queue contents: sequence of job ids, head first
    unfinished_tasks,      \* asyncio.Queue's count of items put and not yet task_done
    request,               \* job -> the request the job was created from
    future,                \* job -> state of job.future
    job_state,             \* job -> position of the job in the service
    worker_pc,             \* position of queue_consumer: "get" or "process"
    current,               \* the job held by queue_consumer (NoJob at "get")
    total_jobs_processed,  \* the global counter
    response,              \* job -> what the client of the request received
    arrival,               \* history: jobs in the order their put completed
    started,               \* history: jobs in the order the worker dequeued them
    invalid_state,         \* history: an InvalidStateError was raised in the worker
    validation,            \* one request on its way through an endpoint's validation
    batch,                 \* one run of _process_batch_job
    chunker,               \* one call of _chunk_text_smartly
    concat,                \* one call of _concatenate_audio_files
    generation,            \* one call of _generate_audio from process_job
    job,                   \* one single-text job and its temporary files
    loop                   \* the event loop: the worker and the /health requests

\* The variables of the queue, and those of the parts modelled on their own.
queueVars == <<job_queue, unfinished_tasks, request, future, job_state, worker_pc,
               current, total_jobs_processed, response, arrival, started,
               invalid_state>>

partVars == <<validation, batch, chunker, concat, generation, job, loop>>

vars == <<job_queue, unfinished_tasks, request, future, job_state, worker_pc,
          current, total_jobs_processed, response, arrival, started,
          invalid_state, validation, batch, chunker, concat, generation, job, loop>>

\* Value of a part's variable in a specification that does not run the part.
Unused == [phase |-> "unused"]

----------------------------------------------------------------------------
\* Requests

Endpoints == {"tts", "voice_clone", "batch_tts"}

\* The requests the three endpoints build jobs from.  A batch request has no
\* return_base64 field; it is FALSE there.
Requests ==
    {[endpoint |-> e, return_base64 |-> b] : e \in {"tts", "voice_clone"}, b \in BOOLEAN}
        \cup {[endpoint |-> "batch_tts", return_base64 |-> FALSE]}

NoRequest == [endpoint |-> "none", return_base64 |-> FALSE]

\* process_job dispatches on the presence of "texts" in the request data.
IsBatch(req) == req.endpoint = "batch_tts"

----------------------------------------------------------------------------
\* What process_job can do for a job: return a result dict ("ok") or raise.
\* A single-text job raises when _generate_audio raises (it wraps every
\* failure in HTTPException(500)); _process_batch_job catches every
\* per-text exception and always returns.
ProcessJobOutcomes(req) ==
    IF IsBatch(req) THEN {"ok"} ELSE {"ok", "error"}

----------------------------------------------------------------------------
\* Futures: "none" (job.future is None), "pending", "result", "exception",
\* "cancelled".  done() is true of the last three.

FutureDone(f) == f \in {"result", "exception", "cancelled"}

ShouldResolveAlways(f) == TRUE

ShouldResolveNever(f) == FALSE

\* `if job.future and not job.future.done()`
ShouldResolve(f) == f # "none" /\ ~FutureDone(f)

\* Future.set_result / Future.set_exception: InvalidStateError on a future
\* that is not pending; the future is then left as it is.
SetFuture(f, value) ==
    IF f = "pending" THEN [fut |-> value, raised |-> FALSE]
                     ELSE [fut |-> f, raised |-> TRUE]

----------------------------------------------------------------------------
\* Responses

NoResponse == [status |-> 0, kind |-> "none", success |-> FALSE, audio |-> FALSE]

\* What `await submit_job_and_wait(job)` gives the endpoint: the result dict,
\* or an exception.  An exception is modelled by its HTTP status code:
\* HTTPException(408) on timeout, the job's exception (HTTPException(500)
\* raised by _generate_audio) when the future holds an exception.
WaitReturn == [raised |-> FALSE, status_code |-> 0]

WaitTimeout == [raised |-> TRUE, status_code |-> 408]

WaitJobError == [raised |-> TRUE, status_code |-> 500]

SingleFailureAlwaysJson(return_base64) ==
    [status |-> 200, kind |-> "TTSResponse", success |-> FALSE, audio |-> FALSE]

\* The `except Exception as e` clause of tts and voice_clone: every exception,
\* the 408 of the timeout included, becomes a TTSResponse with success=False
\* (status 200) when return_base64 is set and HTTPException(500) otherwise.
SingleFailure(return_base64) ==
    IF return_base64
    THEN [status |-> 200, kind |-> "TTSResponse", success |-> FALSE, audio |-> FALSE]
    ELSE [status |-> 500, kind |-> "HTTPException", success |-> FALSE, audio |-> FALSE]

\* The success path of tts and voice_clone.
SingleSuccess(return_base64) ==
    IF return_base64
    THEN [status |-> 200, kind |-> "TTSResponse", success |-> TRUE, audio |-> TRUE]
    ELSE [status |-> 200, kind |-> "Response", success |-> TRUE, audio |-> TRUE]

tts(req, wait) ==
    IF wait.raised THEN SingleFailure(req.return_base64)
                   ELSE SingleSuccess(req.return_base64)

voice_clone(req, wait) ==
    IF wait.raised THEN SingleFailure(req.return_base64)
                   ELSE SingleSuccess(req.return_base64)

batch_tts(req, wait) ==
    IF wait.raised
    THEN [status |-> 500, kind |-> "HTTPException", success |-> FALSE, audio |-> FALSE]
    ELSE [status |-> 200, kind |-> "BatchTTSResponse", success |-> TRUE, audio |-> TRUE]

EndpointResponse(req, wait) ==
    CASE req.endpoint = "tts" -> tts(req, wait)
      [] req.endpoint = "voice_clone" -> voice_clone(req, wait)
      [] OTHER -> batch_tts(req, wait)

----------------------------------------------------------------------------
\* The queue

QueueGetLifo(q) == [item |-> q[Len(q)], rest |-> SubSeq(q, 1, Len(q) - 1)]

QueueGetPeek(q) == [item |-> Head(q), rest |-> q]

\* asyncio.Queue.get on a non-empty queue: the oldest item, removed.
QueueGet(q) == [item |-> Head(q), rest |-> Tail(q)]

QueueAfterTimeoutRemove(q, j) == SelectSeq(q, LAMBDA x : x # j)

\* submit_job_and_wait on timeout: the job stays where it is in job_queue.
QueueAfterTimeout(q, j) == q

----------------------------------------------------------------------------
QueueInit ==
    /\ job_queue = <<>>
    /\ unfinished_tasks = 0
    /\ request = [j \in Jobs |-> NoRequest]
    /\ future = [j \in Jobs |-> "none"]
    /\ job_state = [j \in Jobs |-> "Absent"]
    /\ worker_pc = "get"
    /\ current = NoJob
    /\ total_jobs_processed = 0
    /\ response = [j \in Jobs |-> NoResponse]
    /\ arrival = <<>>
    /\ started = <<>>
    /\ invalid_state = FALSE

Init ==
    /\ QueueInit
    /\ job = Unused
    /\ loop = Unused
    /\ validation = Unused
    /\ batch = Unused
    /\ chunker = Unused
    /\ concat = Unused
    /\ generation = Unused

\* An endpoint creates job j from req; submit_job_and_wait creates the future
\* and puts the job (the queue is unbounded: put never waits).  Job ids are
\* opaque (uuid4): they are numbered here in the order the jobs are created.
Put(j, req) ==
    /\ job_state[j] = "Absent"
    /\ \A i \in Jobs : i < j => job_state[i] # "Absent"
    /\ request' = [request EXCEPT ![j] = req]
    /\ future' = [future EXCEPT ![j] = "pending"]
    /\ job_queue' = Append(job_queue, j)
    /\ unfinished_tasks' = unfinished_tasks + 1
    /\ job_state' = [job_state EXCEPT ![j] = "Queued"]
    /\ arrival' = Append(arrival, j)
    /\ UNCHANGED <<worker_pc, current, total_jobs_processed, response, started,
                   invalid_state>>

Submit(j, req) ==
    /\ Put(j, req)
    /\ UNCHANGED partVars

WorkerAtGetAnywhere == TRUE

\* queue_consumer is one task; it reaches `await job_queue.get()` only at the
\* top of its loop.
WorkerAtGet == worker_pc = "get"

\* `job = await job_queue.get()`
Get ==
    /\ WorkerAtGet
    /\ job_queue # <<>>
    /\ LET g == QueueGet(job_queue) IN
        /\ current' = g.item
        /\ job_queue' = g.rest
        /\ job_state' = [job_state EXCEPT ![g.item] = "Running"]
        /\ started' = Append(started, g.item)
    /\ worker_pc' = "process"
    /\ UNCHANGED <<unfinished_tasks, request, future, total_jobs_processed,
                   response, arrival, invalid_state>>
    /\ UNCHANGED partVars

NextPcDieOnError(outcome) == IF outcome = "ok" THEN "get" ELSE "dead"

\* `while True` with the try/except around each job: back to get() whatever
\* process_job did.
NextPc(outcome) == "get"

\* The rest of one loop iteration: process_job ends with outcome, the future
\* is resolved, the counter advances, task_done() is called.
Process(outcome) ==
    /\ worker_pc = "process"
    /\ outcome \in ProcessJobOutcomes(request[current])
    /\ LET j == current
           \* try: result = await process_job(job); set_result
           first == IF outcome = "ok" /\ ShouldResolve(future[j])
                    THEN SetFuture(future[j], "result")
                    ELSE [fut |-> future[j], raised |-> FALSE]
           \* except Exception: entered when process_job or set_result raised
           inExcept == outcome = "error" \/ first.raised
           second == IF inExcept /\ ShouldResolve(first.fut)
                     THEN SetFuture(first.fut, "exception")
                     ELSE [fut |-> first.fut, raised |-> FALSE]
       IN
        /\ future' = [future EXCEPT ![j] = second.fut]
        /\ invalid_state' = (invalid_state \/ first.raised \/ second.raised)
        /\ total_jobs_processed' =
              IF inExcept THEN total_jobs_processed ELSE total_jobs_processed + 1
        /\ job_state' = [job_state EXCEPT
              ![j] = IF outcome = "ok" THEN "Completed" ELSE "Failed"]
    /\ unfinished_tasks' = unfinished_tasks - 1
    /\ current' = NoJob
    /\ worker_pc' = NextPc(outcome)
    /\ UNCHANGED <<job_queue, request, response, arrival, started>>
    /\ UNCHANGED partVars

\* asyncio.wait_for expires while the future is pending: it cancels the
\* future, submit_job_and_wait raises HTTPException(408) and the endpoint
\* answers.  The wait may expire at any moment between the put and the
\* resolution: while the job is queued and while process_job runs.
Timeout(j) ==
    /\ future[j] = "pending"
    /\ response[j] = NoResponse
    /\ future' = [future EXCEPT ![j] = "cancelled"]
    /\ job_queue' = QueueAfterTimeout(job_queue, j)
    /\ response' = [response EXCEPT ![j] = EndpointResponse(request[j], WaitTimeout)]
    /\ UNCHANGED <<unfinished_tasks, request, job_state, worker_pc, current,
                   total_jobs_processed, arrival, started, invalid_state>>
    /\ UNCHANGED partVars

\* The waiter wakes on a resolved future and the endpoint answers.
Respond(j) ==
    /\ future[j] \in {"result", "exception"}
    /\ response[j] = NoResponse
    /\ response' = [response EXCEPT ![j] =
          EndpointResponse(request[j],
                           IF future[j] = "result" THEN WaitReturn ELSE WaitJobError)]
    /\ UNCHANGED <<job_queue, unfinished_tasks, request, future, job_state,
                   worker_pc, current, total_jobs_processed, arrival, started,
                   invalid_state>>
    /\ UNCHANGED partVars

Next ==
    \/ \E j \in Jobs, req \in Requests : Submit(j, req)
    \/ Get
    \/ \E outcome \in {"ok", "error"} : Process(outcome)
    \/ \E j \in Jobs : Timeout(j)
    \/ \E j \in Jobs : Respond(j)

Spec == Init /\ [][Next]_vars

\* The worker task is scheduled whenever it can run, and every synthesizer
\* call returns or raises.
LiveSpec ==
    /\ Spec
    /\ WF_vars(Get)
    /\ WF_vars(\E outcome \in {"ok", "error"} : Process(outcome))

----------------------------------------------------------------------------
\* Validation of a request, before the endpoint's body runs.
\*
\* A request is a record of what the validation looks at: the endpoint, the
\* length of the text (of the longest text, for a batch), the number of texts,
\* the three synthesis parameters in tenths (5 is 0.5), the output format and
\* return_base64.

TextLens == {0, 1, 1000, 1001}

TextCounts == {1, 10, 11}

ExaggerationTenths == {-1, 0, 20, 21}

CfgWeightTenths == {-1, 0, 10, 11}

TemperatureTenths == {0, 1, 20, 21}

OutputFormats == {"wav", "mp3", "ogg", "flac"}

WireRequests ==
    [endpoint : {"tts", "voice_clone"}, text_len : TextLens, n_texts : {1},
     exaggeration : ExaggerationTenths, cfg_weight : CfgWeightTenths,
     temperature : TemperatureTenths, output_format : OutputFormats,
     return_base64 : BOOLEAN]
    \cup
    [endpoint : {"batch_tts"}, text_len : TextLens, n_texts : TextCounts,
     exaggeration : ExaggerationTenths, cfg_weight : CfgWeightTenths,
     temperature : TemperatureTenths, output_format : {"wav"},
     return_base64 : {FALSE}]

\* class TTSRequest: text max_length=1000 (no minimum length); exaggeration
\* ge=0.0 le=2.0; cfg_weight ge=0.0 le=1.0; temperature ge=0.1 le=2.0;
\* output_format pattern ^(wav|mp3|ogg)$.
TTSRequestValid(r) ==
    /\ r.text_len <= 1000
    /\ 0 <= r.exaggeration /\ r.exaggeration <= 20
    /\ 0 <= r.cfg_weight /\ r.cfg_weight <= 10
    /\ 1 <= r.temperature /\ r.temperature <= 20
    /\ r.output_format \in {"wav", "mp3", "ogg"}

\* class BatchTTSRequest: texts max_items=10 (no limit on a text's length, no
\* output format); the three parameters as in TTSRequest.
BatchTTSRequestValid(r) ==
    /\ r.n_texts <= 10
    /\ 0 <= r.exaggeration /\ r.exaggeration <= 20
    /\ 0 <= r.cfg_weight /\ r.cfg_weight <= 10
    /\ 1 <= r.temperature /\ r.temperature <= 20

\* voice_clone takes text, exaggeration, cfg_weight, temperature,
\* output_format and return_base64 as plain typed parameters: no range, length
\* or pattern is declared, so every well-typed request passes.
VoiceCloneValid(r) == TRUE

\* The job's request as the queue sees it.
QueueRequest(r) == [endpoint |-> r.endpoint, return_base64 |-> r.return_base64]

ValidationInit ==
    /\ QueueInit
    /\ job = Unused
    /\ loop = Unused
    /\ \E r \in WireRequests : validation = [phase |-> "received", req |-> r, status |-> 0]
    /\ batch = Unused
    /\ chunker = Unused
    /\ concat = Unused
    /\ generation = Unused

\* FastAPI validates the request against the endpoint's declaration: a
\* failure is answered with 422 and the body does not run; otherwise the
\* body creates the job and submit_job_and_wait puts it on the queue.
Endpoint(name, valid) ==
    /\ validation.phase = "received"
    /\ validation.req.endpoint = name
    /\ IF valid
       THEN /\ Put(1, QueueRequest(validation.req))
            /\ validation' = [validation EXCEPT !.phase = "enqueued"]
       ELSE /\ UNCHANGED queueVars
            /\ validation' = [validation EXCEPT !.phase = "rejected", !.status = 422]
    /\ UNCHANGED <<batch, chunker, concat, generation, job, loop>>

TtsEndpoint == Endpoint("tts", TTSRequestValid(validation.req))

VoiceCloneEndpoint == Endpoint("voice_clone", VoiceCloneValid(validation.req))

BatchTtsEndpoint == Endpoint("batch_tts", BatchTTSRequestValid(validation.req))

ValidationNext ==
    \/ TtsEndpoint
    \/ VoiceCloneEndpoint
    \/ BatchTtsEndpoint

ValidationSpec == ValidationInit /\ [][ValidationNext]_vars

----------------------------------------------------------------------------
\* _process_batch_job: the loop over the texts of one batch job.
\*
\* A text is given by the duration of the audio the synthesizer produces for
\* it and by the step of its processing that raises, if any: "synthesis"
\* (_generate_audio), "duration" (get_model / _get_audio_duration),
\* "encoding" (_audio_to_base64), or "none".

\* Largest number of texts in the batch.
MaxTexts == 3

Durations == {1, 2}

FailSteps == {"none", "synthesis", "duration", "encoding"}

BatchTexts ==
    UNION {[1..n -> [dur : Durations, fail : FailSteps]] : n \in 0..MaxTexts}

\* The entry appended when the try block of the loop body completes.
SuccessEntry(text) == [success |-> TRUE, duration_seconds |-> text.dur]

\* The entry appended by the except clause of the loop body.
FailedEntry(text) == [success |-> FALSE, duration_seconds |-> 0]

\* total_duration after the body for one text: `total_duration += duration`
\* comes after _get_audio_duration and before _audio_to_base64.
TotalAfter(total, text) ==
    IF text.fail \in {"none", "encoding"} THEN total + text.dur ELSE total

NextTextStopOnFailure(i, n, failed) == IF failed THEN n + 1 ELSE i + 1

\* `for i, text in enumerate(texts)`: the except clause is inside the loop
\* body, so the loop goes on to the next text whatever happened.
NextText(i, n, failed) == i + 1

BatchSuccessAllOrNothing(results) == \A k \in 1..Len(results) : results[k].success

\* "success": True in the dict _process_batch_job returns.
BatchSuccess(results) == TRUE

BatchInit ==
    /\ QueueInit
    /\ job = Unused
    /\ loop = Unused
    /\ validation = Unused
    /\ chunker = Unused
    /\ concat = Unused
    /\ generation = Unused
    /\ \E texts \in BatchTexts :
          batch = [phase |-> "loop", texts |-> texts, i |-> 1, results |-> <<>>,
                   total_duration |-> 0, success |-> FALSE, future |-> "pending"]

\* One pass through the loop body, for texts[i].
BatchText ==
    /\ batch.phase = "loop"
    /\ batch.i <= Len(batch.texts)
    /\ LET text == batch.texts[batch.i]
           failed == text.fail # "none"
       IN batch' = [batch EXCEPT
              !.results = Append(@, IF failed THEN FailedEntry(text) ELSE SuccessEntry(text)),
              !.total_duration = TotalAfter(@, text),
              !.i = NextText(@, Len(batch.texts), failed)]
    /\ UNCHANGED queueVars
    /\ UNCHANGED <<validation, chunker, concat, generation, job, loop>>

\* The loop is over: _process_batch_job returns its dict, process_job returns
\* it and queue_consumer resolves the job's future with it.
BatchReturn ==
    /\ batch.phase = "loop"
    /\ batch.i > Len(batch.texts)
    /\ batch' = [batch EXCEPT
          !.phase = "returned",
          !.success = BatchSuccess(batch.results),
          !.future = IF ShouldResolve(@) THEN SetFuture(@, "result").fut ELSE @]
    /\ UNCHANGED queueVars
    /\ UNCHANGED <<validation, chunker, concat, generation, job, loop>>

BatchNext ==
    \/ BatchText
    \/ BatchReturn

BatchSpec == BatchInit /\ [][BatchNext]_vars

----------------------------------------------------------------------------
\* Texts.
\*
\* A text is a sequence of atoms.  An atom is a run of n letters (characters
\* that are neither whitespace nor punctuation; neighbouring runs read as one
\* longer run) or one character of a class the chunker tells apart: a blank,
\* a line break, a sentence mark (. ! ?) or a clause mark (, ; :).

\* Largest number of atoms in an input text.
MaxAtoms == 5

\* Lengths of the runs of letters in the input texts.
WordLens == {1, 229, 250}

Word(n) == [k |-> "w", n |-> n]

Sp == [k |-> "sp", n |-> 1]

Nl == [k |-> "nl", n |-> 1]

Dot == [k |-> "dot", n |-> 1]

Com == [k |-> "com", n |-> 1]

Atoms == {Word(n) : n \in WordLens} \cup {Sp, Nl, Dot, Com}

Texts == UNION {[1..n -> Atoms] : n \in 0..MaxAtoms}

\* \s of the regular expressions, and the whitespace of str.strip/str.split.
IsSpace(a) == a.k \in {"sp", "nl"}

\* len(text)
RECURSIVE CharCount(_)
CharCount(t) == IF t = <<>> THEN 0 ELSE Head(t).n + CharCount(Tail(t))

StripLeft(t) ==
    LET keep == {i \in 1..Len(t) : ~IsSpace(t[i])}
    IN  IF keep = {} THEN <<>>
        ELSE SubSeq(t, CHOOSE i \in keep : \A m \in keep : i <= m, Len(t))

StripLeading(t) == StripLeft(t)

\* str.strip()
Strip(t) ==
    LET keep == {i \in 1..Len(t) : ~IsSpace(t[i])}
    IN  IF keep = {} THEN <<>>
        ELSE SubSeq(t, CHOOSE i \in keep : \A m \in keep : i <= m,
                       CHOOSE i \in keep : \A m \in keep : i >= m)

\* re.sub(r'\s+', ' ', t): every run of whitespace becomes one blank.
RECURSIVE CollapseSpace(_)
CollapseSpace(t) ==
    IF t = <<>> THEN <<>>
    ELSE IF IsSpace(Head(t))
         THEN <<Sp>> \o CollapseSpace(StripLeft(t))
         ELSE <<Head(t)>> \o CollapseSpace(Tail(t))

ESTIMATED_CHARS_PER_SECOND == 12

COMFORTABLE_DURATION == 25

MAX_DURATION_HARD_LIMIT == 40

\* _estimate_audio_duration, as the character count of the cleaned text: the
\* duration in units of 1/ESTIMATED_CHARS_PER_SECOND second.
estimate_audio_duration_no_space(text) ==
    LET NotSpace(a) == ~IsSpace(a)
    IN  CharCount(SelectSeq(text, NotSpace))

estimate_audio_duration(text) == CharCount(CollapseSpace(Strip(text)))

\* `_estimate_audio_duration(text) <= duration`, duration in seconds.
DurationWithin(text, duration) ==
    estimate_audio_duration(text) <= duration * ESTIMATED_CHARS_PER_SECOND

\* Index of the last atom of the run of atoms of the given kinds that starts
\* at i.
RECURSIVE RunEnd(_, _, _)
RunEnd(t, i, kinds) ==
    IF i < Len(t) /\ t[i + 1].k \in kinds THEN RunEnd(t, i + 1, kinds) ELSE i

\* re.split(r'\n\s*\n', text): a separator starts at the first line break
\* that is followed, within the same run of whitespace, by another line
\* break, and extends to the last line break of that run.
RECURSIVE SplitParagraphs(_)
SplitParagraphs(t) ==
    LET starts == {i \in 1..Len(t) :
                      /\ t[i].k = "nl"
                      /\ \E j \in (i + 1)..RunEnd(t, i, {"sp", "nl"}) : t[j].k = "nl"}
    IN  IF starts = {} THEN <<t>>
        ELSE LET i == CHOOSE x \in starts : \A y \in starts : x <= y
                 ends == {j \in (i + 1)..RunEnd(t, i, {"sp", "nl"}) : t[j].k = "nl"}
                 j == CHOOSE x \in ends : \A y \in ends : x >= y
             IN  <<SubSeq(t, 1, i - 1)>> \o SplitParagraphs(SubSeq(t, j + 1, Len(t)))

\* re.split with a capturing group of one or more marks of kind k
\* (r'([.!?]+)' for "dot", r'([,;:]+)' for "com"): the pieces between the
\* runs of marks, alternating with the runs themselves.
RECURSIVE SplitCapture(_, _)
SplitCapture(t, k) ==
    LET marks == {i \in 1..Len(t) : t[i].k = k}
    IN  IF marks = {} THEN <<t>>
        ELSE LET i == CHOOSE x \in marks : \A y \in marks : x <= y
                 j == RunEnd(t, i, {k})
             IN  <<SubSeq(t, 1, i - 1), SubSeq(t, i, j)>>
                    \o SplitCapture(SubSeq(t, j + 1, Len(t)), k)

\* `for i in range(0, len(pieces), 2)`: piece i with the marks that follow
\* it, or piece i alone when it is the last.
UnitNoMarks(pieces, i) == pieces[i]

Unit(pieces, i) ==
    IF i + 1 <= Len(pieces) THEN pieces[i] \o pieces[i + 1] ELSE pieces[i]

\* str.split(): the maximal runs of non-whitespace atoms.
RECURSIVE SplitWords(_)
SplitWords(t) ==
    LET u == StripLeft(t)
    IN  IF u = <<>> THEN <<>>
        ELSE LET spaces == {i \in 1..Len(u) : IsSpace(u[i])}
             IN  IF spaces = {} THEN <<u>>
                 ELSE LET i == CHOOSE x \in spaces : \A y \in spaces : x <= y
                      IN  <<SubSeq(u, 1, i - 1)>> \o SplitWords(SubSeq(u, i, Len(u)))

\* [chunk.strip() for chunk in chunks if chunk.strip()]
RECURSIVE StripAll(_)
StripAll(chunks) ==
    IF chunks = <<>> THEN <<>>
    ELSE (IF Strip(Head(chunks)) = <<>> THEN <<>> ELSE <<Strip(Head(chunks))>>)
            \o StripAll(Tail(chunks))

\* `if current_chunk: chunks.append(current_chunk)`
AppendIfAny(chunks, cur) ==
    IF cur = <<>> THEN chunks ELSE Append(chunks, cur)

\* (current_chunk + sep + unit) if current_chunk else unit
Joined(cur, sep, unit) ==
    IF cur = <<>> THEN unit ELSE cur \o sep \o unit

----------------------------------------------------------------------------
\* The chunker.  Each loop is a recursive operator over the index of the
\* next unit, carrying `chunks` and `current_chunk` (cur).

\* The loop of _split_on_words.
RECURSIVE WordsLoop(_, _, _, _, _)
WordsLoop(words, i, chunks, cur, max_duration) ==
    IF i > Len(words) THEN AppendIfAny(chunks, cur)
    ELSE LET test_chunk == Joined(cur, <<Sp>>, words[i])
         IN  IF DurationWithin(test_chunk, max_duration)
             THEN WordsLoop(words, i + 1, chunks, test_chunk, max_duration)
             ELSE WordsLoop(words, i + 1, AppendIfAny(chunks, cur), words[i], max_duration)

split_on_words_whole(text, max_duration) == <<text>>

split_on_words(text, max_duration) ==
    StripAll(WordsLoop(SplitWords(text), 1, <<>>, <<>>, max_duration))

\* The loop of _split_on_clauses over clauses = re.split(r'([,;:]+)', text).
RECURSIVE ClausesLoop(_, _, _, _, _)
ClausesLoop(clauses, i, chunks, cur, max_duration) ==
    IF i > Len(clauses) THEN AppendIfAny(chunks, cur)
    ELSE LET clause == Strip(Unit(clauses, i))
             test_chunk == Joined(cur, <<Sp>>, clause)
         IN  IF clause = <<>>
             THEN ClausesLoop(clauses, i + 2, chunks, cur, max_duration)
             ELSE IF DurationWithin(test_chunk, max_duration)
             THEN ClausesLoop(clauses, i + 2, chunks, test_chunk, max_duration)
             ELSE IF DurationWithin(clause, max_duration)
             THEN ClausesLoop(clauses, i + 2, AppendIfAny(chunks, cur), clause,
                              max_duration)
             ELSE LET word_chunks == split_on_words(clause, max_duration)
                  IN  ClausesLoop(clauses, i + 2,
                          AppendIfAny(chunks, cur)
                              \o SubSeq(word_chunks, 1, Len(word_chunks) - 1),
                          word_chunks[Len(word_chunks)], max_duration)

split_on_clauses_whole(text, max_duration) == <<text>>

split_on_clauses(text, max_duration) ==
    IF DurationWithin(text, max_duration) THEN <<text>>
    ELSE StripAll(ClausesLoop(SplitCapture(text, "com"), 1, <<>>, <<>>, max_duration))

\* The loop of _split_long_text over sentences = re.split(r'([.!?]+)', text).
RECURSIVE SentencesLoop(_, _, _, _, _)
SentencesLoop(sentences, i, chunks, cur, max_duration) ==
    IF i > Len(sentences) THEN AppendIfAny(chunks, cur)
    ELSE LET sentence == Strip(Unit(sentences, i))
             test_chunk == Joined(cur, <<Sp>>, sentence)
         IN  IF sentence = <<>>
             THEN SentencesLoop(sentences, i + 2, chunks, cur, max_duration)
             ELSE IF DurationWithin(test_chunk, max_duration)
             THEN SentencesLoop(sentences, i + 2, chunks, test_chunk, max_duration)
             ELSE IF DurationWithin(sentence, max_duration)
             THEN SentencesLoop(sentences, i + 2, AppendIfAny(chunks, cur), sentence,
                                max_duration)
             ELSE LET clause_chunks == split_on_clauses(sentence, max_duration)
                  IN  SentencesLoop(sentences, i + 2,
                          AppendIfAny(chunks, cur)
                              \o SubSeq(clause_chunks, 1, Len(clause_chunks) - 1),
                          clause_chunks[Len(clause_chunks)], max_duration)

split_long_text(text, max_duration) ==
    IF DurationWithin(text, max_duration) THEN <<text>>
    ELSE StripAll(SentencesLoop(SplitCapture(text, "dot"), 1, <<>>, <<>>, max_duration))

\* The loop of _aggressive_chunking over the paragraphs.
RECURSIVE AggressiveLoop(_, _, _, _)
AggressiveLoop(paragraphs, i, chunks, target_duration) ==
    IF i > Len(paragraphs) THEN chunks
    ELSE LET paragraph == Strip(paragraphs[i])
         IN  IF paragraph = <<>>
             THEN AggressiveLoop(paragraphs, i + 1, chunks, target_duration)
             ELSE IF DurationWithin(paragraph, target_duration)
             THEN AggressiveLoop(paragraphs, i + 1, Append(chunks, paragraph),
                                 target_duration)
             ELSE AggressiveLoop(paragraphs, i + 1,
                      chunks \o split_long_text(paragraph, target_duration),
                      target_duration)

aggressive_chunking_within_limit(text, target_duration) ==
    LET Fits(chunk) == DurationWithin(chunk, MAX_DURATION_HARD_LIMIT)
    IN  SelectSeq(StripAll(AggressiveLoop(SplitParagraphs(text), 1, <<>>,
                                          target_duration)), Fits)

aggressive_chunking(text, target_duration) ==
    StripAll(AggressiveLoop(SplitParagraphs(text), 1, <<>>, target_duration))

\* The paragraph loop of _try_gentle_chunking.
RECURSIVE GentleParagraphsLoop(_, _, _, _)
GentleParagraphsLoop(paragraphs, i, chunks, cur) ==
    IF i > Len(paragraphs) THEN AppendIfAny(chunks, cur)
    ELSE LET paragraph == Strip(paragraphs[i])
             test_chunk == Joined(cur, <<Nl, Nl>>, paragraph)
         IN  IF paragraph = <<>>
             THEN GentleParagraphsLoop(paragraphs, i + 1, chunks, cur)
             ELSE IF DurationWithin(test_chunk, MAX_DURATION_HARD_LIMIT)
             THEN GentleParagraphsLoop(paragraphs, i + 1, chunks, test_chunk)
             ELSE GentleParagraphsLoop(paragraphs, i + 1, AppendIfAny(chunks, cur),
                                       paragraph)

\* The sentence loop of _try_gentle_chunking.
RECURSIVE GentleSentencesLoop(_, _, _, _)
GentleSentencesLoop(sentences, i, chunks, cur) ==
    IF i > Len(sentences) THEN AppendIfAny(chunks, cur)
    ELSE LET sentence == Strip(Unit(sentences, i))
             test_chunk == Joined(cur, <<Sp>>, sentence)
         IN  IF sentence = <<>>
             THEN GentleSentencesLoop(sentences, i + 2, chunks, cur)
             ELSE IF cur # <<>> /\ ~DurationWithin(test_chunk, MAX_DURATION_HARD_LIMIT)
             THEN GentleSentencesLoop(sentences, i + 2, Append(chunks, cur), sentence)
             ELSE GentleSentencesLoop(sentences, i + 2, chunks, test_chunk)

try_gentle_chunking_by_words(text, target_duration) ==
    split_on_words(text, target_duration)

try_gentle_chunking(text, target_duration) ==
    LET paragraphs == SplitParagraphs(text)
        sentences == SplitCapture(text, "dot")
    IN  IF Len(paragraphs) > 1
        THEN StripAll(GentleParagraphsLoop(paragraphs, 1, <<>>, <<>>))
        ELSE IF Len(sentences) > 2
        THEN LET chunks == GentleSentencesLoop(sentences, 1, <<>>, <<>>)
             IN  IF Len(chunks) > 1 THEN StripAll(chunks) ELSE <<>>
        ELSE <<>>

chunk_text_smartly_no_blank(text, comfortable_duration) ==
    IF DurationWithin(text, comfortable_duration) THEN StripAll(<<text>>)
    ELSE aggressive_chunking(text, comfortable_duration)

chunk_text_smartly(text, comfortable_duration) ==
    IF DurationWithin(text, comfortable_duration) THEN <<Strip(text)>>
    ELSE IF DurationWithin(text, MAX_DURATION_HARD_LIMIT)
    THEN LET gentle_chunks == try_gentle_chunking(text, comfortable_duration)
         IN  IF Len(gentle_chunks) > 1 THEN gentle_chunks ELSE <<Strip(text)>>
    ELSE aggressive_chunking(text, comfortable_duration)

\* "Hi there."
HiThere == <<Word(2), Sp, Word(5), Dot>>

ExampleTexts == {HiThere}

ChunkInit ==
    /\ QueueInit
    /\ job = Unused
    /\ loop = Unused
    /\ validation = Unused
    /\ batch = Unused
    /\ concat = Unused
    /\ generation = Unused
    /\ \E t \in Texts \cup ExampleTexts :
          chunker = [phase |-> "input", text |-> t, segments |-> <<>>]

\* chunks = _chunk_text_smartly(text, COMFORTABLE_DURATION)
ChunkText ==
    /\ chunker.phase = "input"
    /\ chunker' = [chunker EXCEPT
          !.phase = "done",
          !.segments = chunk_text_smartly(chunker.text, COMFORTABLE_DURATION)]
    /\ UNCHANGED queueVars
    /\ UNCHANGED <<validation, batch, concat, generation, job, loop>>

ChunkNext == ChunkText

ChunkSpec == ChunkInit /\ [][ChunkNext]_vars

----------------------------------------------------------------------------
\* Chunking of a text of two paragraphs, each estimated at 30 seconds.

ParagraphWordLens == {179, 180, 358, 359, 360}

ParagraphAtoms == {Word(n) : n \in ParagraphWordLens} \cup {Sp, Dot, Com}

\* The paragraphs of one to three atoms whose estimate is 30 seconds.
Paragraphs30 ==
    {p \in UNION {[1..n -> ParagraphAtoms] : n \in 1..3} :
        /\ Strip(p) = p
        /\ estimate_audio_duration(p) = 30 * ESTIMATED_CHARS_PER_SECOND}

\* The blank lines between the two paragraphs.
ParagraphBreaks == {<<Nl, Nl>>, <<Nl, Sp, Nl>>}

ParagraphInit ==
    /\ QueueInit
    /\ job = Unused
    /\ loop = Unused
    /\ validation = Unused
    /\ batch = Unused
    /\ concat = Unused
    /\ generation = Unused
    /\ \E p \in Paragraphs30, q \in Paragraphs30, b \in ParagraphBreaks :
          chunker = [phase |-> "input", text |-> p \o b \o q, segments |-> <<>>]

ParagraphNext == ChunkText

ParagraphSpec == ParagraphInit /\ [][ParagraphNext]_vars

----------------------------------------------------------------------------
\* _concatenate_audio_files.  An audio file is its sample rate and its
\* samples, a sequence of waveform ids.

MaxFiles == 3

SampleRates == {22050, 24000}

Waveforms == {1, 2}

AudioFiles == {[sr |-> r, samples |-> <<w>>] : r \in SampleRates, w \in Waveforms}

\* The file at output_path before the call: the caller's empty temporary file.
NoOutput == [sr |-> 0, samples |-> <<>>]

RECURSIVE AllSamples(_)
AllSamples(audio_files) ==
    IF audio_files = <<>> THEN <<>>
    ELSE Head(audio_files).samples \o AllSamples(Tail(audio_files))

\* ffmpeg -f concat -c copy: the streams are copied one after the other under
\* the header of the first file.
FfmpegConcat(audio_files) ==
    [sr |-> audio_files[1].sr, samples |-> AllSamples(audio_files)]

concatenate_audio_files_ffmpeg_first(audio_files, sample_rate, ffmpeg_found, ffmpeg_ok) ==
    IF audio_files = <<>>
    THEN [raised |-> "ValueError", output |-> NoOutput]
    ELSE IF ~ffmpeg_found
    THEN [raised |-> "RuntimeError", output |-> NoOutput]
    ELSE IF Len(audio_files) = 1
    THEN [raised |-> "None", output |-> audio_files[1]]
    ELSE IF ffmpeg_ok
    THEN [raised |-> "None", output |-> FfmpegConcat(audio_files)]
    ELSE [raised |-> "RuntimeError", output |-> NoOutput]

\* sample_rate is a parameter of the function and is not read by it.
concatenate_audio_files(audio_files, sample_rate, ffmpeg_found, ffmpeg_ok) ==
    IF audio_files = <<>>
    THEN [raised |-> "ValueError", output |-> NoOutput]
    ELSE IF Len(audio_files) = 1
    THEN [raised |-> "None", output |-> audio_files[1]]
    ELSE IF ~ffmpeg_found
    THEN [raised |-> "RuntimeError", output |-> NoOutput]
    ELSE IF ffmpeg_ok
    THEN [raised |-> "None", output |-> FfmpegConcat(audio_files)]
    ELSE [raised |-> "RuntimeError", output |-> NoOutput]

ConcatInit ==
    /\ QueueInit
    /\ job = Unused
    /\ loop = Unused
    /\ validation = Unused
    /\ batch = Unused
    /\ chunker = Unused
    /\ generation = Unused
    /\ \E files \in UNION {[1..n -> AudioFiles] : n \in 0..MaxFiles},
          r \in SampleRates, found \in BOOLEAN :
          concat = [phase |-> "call", audio_files |-> files, sample_rate |-> r,
                    ffmpeg_found |-> found, raised |-> "None", output |-> NoOutput]

\* One call; whether the ffmpeg process exits with 0 is the environment's choice.
Concatenate ==
    /\ concat.phase = "call"
    /\ \E ffmpeg_ok \in BOOLEAN :
          LET result == concatenate_audio_files(concat.audio_files, concat.sample_rate,
                                                concat.ffmpeg_found, ffmpeg_ok)
          IN  concat' = [concat EXCEPT
                  !.phase = IF result.raised = "None" THEN "returned" ELSE "raised",
                  !.raised = result.raised,
                  !.output = result.output]
    /\ UNCHANGED queueVars
    /\ UNCHANGED <<validation, batch, chunker, generation, job, loop>>

ConcatNext == Concatenate

ConcatSpec == ConcatInit /\ [][ConcatNext]_vars

----------------------------------------------------------------------------
\* _generate_audio, called by process_job for a single-text job.  `calls` is
\* the history of the calls of model.generate: the text and the
\* audio_prompt_path keyword of each (NoPath when the keyword is not passed).

NoPath == "None"

\* job.audio_file_path
AudioFilePaths == {NoPath, "", "ref.wav"}

\* `if audio_prompt_path:`
Truthy(path) == path \notin {NoPath, ""}

\* audio_prompt_path = job.audio_file_path if job.audio_file_path else None
AudioPromptPath(audio_file_path) ==
    IF Truthy(audio_file_path) THEN audio_file_path ELSE NoPath

DirectCallNoPrompt(text, audio_prompt_path) ==
    [text |-> text, audio_prompt_path |-> NoPath]

\* get_model().generate(text, **kwargs) of the branch without chunking
DirectCall(text, audio_prompt_path) ==
    [text |-> text,
     audio_prompt_path |-> IF Truthy(audio_prompt_path) THEN audio_prompt_path
                           ELSE NoPath]

ChunkCallEveryChunk(chunk, i, audio_prompt_path) ==
    [text |-> chunk,
     audio_prompt_path |-> IF Truthy(audio_prompt_path) THEN audio_prompt_path
                           ELSE NoPath]

\* model_instance.generate(chunk, **kwargs) of pass i of the loop
ChunkCall(chunk, i, audio_prompt_path) ==
    [text |-> chunk,
     audio_prompt_path |-> IF Truthy(audio_prompt_path) /\ i = 0
                           THEN audio_prompt_path ELSE NoPath]

\* The waveform the synthesizer returns for segment k: k samples marked k.
Waveform(k) == [j \in 1..k |-> k]

\* The contents of temp_audio_files: the waveform of each registered segment,
\* saved at the model's rate.
TempAudioFiles(temp_audio_files, sr) ==
    [n \in 1..Len(temp_audio_files) |->
        [sr |-> sr, samples |-> Waveform(temp_audio_files[n])]]

\* The name of the concatenated temporary file among the temporary files;
\* the file of segment k is named k.
ConcatenatedFile == 0

AddTempFileFirst(temp_audio_files, name) == <<name>> \o temp_audio_files

\* temp_audio_files.append(tmp.name)
AddTempFile(temp_audio_files, name) == Append(temp_audio_files, name)

\* The finally clause: every file of temp_audio_files is deleted.
CleanUp(files, temp_audio_files) ==
    files \ {temp_audio_files[n] : n \in 1..Len(temp_audio_files)}

AfterChunkSkipFailed(outcome) == "loop"

\* Where the loop goes after a pass: on, or out by the exception.
AfterChunk(outcome) == IF outcome = "ok" THEN "loop" ELSE "raised"

\* The exception leaves _generate_audio as HTTPException(500) and process_job
\* with it; queue_consumer's except clause resolves the future in the same
\* turn of the event loop.
Raise(g, failure, files) ==
    [g EXCEPT !.phase = "raised",
              !.failure = failure,
              !.files = files,
              !.future = IF ShouldResolve(g.future)
                         THEN SetFuture(g.future, "exception").fut
                         ELSE g.future]

GenerateInit ==
    /\ QueueInit
    /\ job = Unused
    /\ loop = Unused
    /\ validation = Unused
    /\ batch = Unused
    /\ chunker = Unused
    /\ concat = Unused
    /\ \E t \in Texts \cup ExampleTexts, path \in AudioFilePaths :
          generation = [phase |-> "start", text |-> t, audio_file_path |-> path,
                        chunks |-> <<>>, i |-> 0, calls |-> <<>>,
                        chunked |-> FALSE, concatenated |-> FALSE,
                        temp_audio_files |-> <<>>, files |-> {}, wav |-> <<>>,
                        failure |-> "none", future |-> "pending"]

\* Up to the end of the direct branch, or up to the start of the loop.
GenerateStart ==
    /\ generation.phase = "start"
    /\ IF DurationWithin(generation.text, MAX_DURATION_HARD_LIMIT)
       THEN \E ok \in BOOLEAN :
               LET called == [generation EXCEPT
                       !.calls = <<DirectCall(generation.text,
                                       AudioPromptPath(generation.audio_file_path))>>]
               IN  generation' =
                       IF ok THEN [called EXCEPT !.phase = "returned",
                                                 !.wav = Waveform(1)]
                       ELSE Raise(called, "generate", {})
       ELSE generation' = [generation EXCEPT
               !.chunks = chunk_text_smartly(generation.text, COMFORTABLE_DURATION),
               !.chunked = TRUE,
               !.phase = "loop"]
    /\ UNCHANGED queueVars
    /\ UNCHANGED <<validation, batch, chunker, concat, job, loop>>

\* One pass of `for i, chunk in enumerate(chunks)`: the call of generate, the
\* creation of the segment's temporary file, ta.save, the registration of the
\* file.  generate or ta.save may raise; the finally clause then runs.
GenerateChunk ==
    /\ generation.phase = "loop"
    /\ generation.i < Len(generation.chunks)
    /\ \E outcome \in {"ok", "generate", "save"} :
          LET k == generation.i + 1
              called == [generation EXCEPT
                  !.calls = Append(@, ChunkCall(generation.chunks[k], generation.i,
                                       AudioPromptPath(generation.audio_file_path))),
                  !.failure = IF outcome = "ok" THEN @ ELSE outcome]
              created == IF outcome = "generate" THEN generation.files
                         ELSE generation.files \cup {k}
          IN  generation' =
                  IF AfterChunk(outcome) = "loop"
                  THEN [called EXCEPT
                          !.i = k,
                          !.files = created,
                          !.temp_audio_files =
                              IF outcome = "ok" THEN AddTempFile(@, k) ELSE @]
                  ELSE Raise(called, outcome,
                             CleanUp(created, generation.temp_audio_files))
    /\ UNCHANGED queueVars
    /\ UNCHANGED <<validation, batch, chunker, concat, job, loop>>

\* After the loop: the concatenated temporary file is created,
\* _concatenate_audio_files(temp_audio_files, ...) writes it, ta.load reads it
\* and it is deleted; the finally clause runs on every way out.
GenerateConcatenate ==
    /\ generation.phase = "loop"
    /\ generation.i = Len(generation.chunks)
    /\ \E sr \in SampleRates, ffmpeg_found \in BOOLEAN, ffmpeg_ok \in BOOLEAN,
          load_ok \in BOOLEAN :
          LET result == concatenate_audio_files(
                            TempAudioFiles(generation.temp_audio_files, sr), sr,
                            ffmpeg_found, ffmpeg_ok)
              called == [generation EXCEPT !.concatenated = TRUE]
              created == generation.files \cup {ConcatenatedFile}
          IN  generation' =
                  IF result.raised # "None"
                  THEN Raise(called, "concatenate",
                             CleanUp(created, generation.temp_audio_files))
                  ELSE IF ~load_ok
                  THEN Raise(called, "load",
                             CleanUp(created, generation.temp_audio_files))
                  ELSE [called EXCEPT
                          !.phase = "returned",
                          !.wav = result.output.samples,
                          !.files = CleanUp(created \ {ConcatenatedFile},
                                            generation.temp_audio_files)]
    /\ UNCHANGED queueVars
    /\ UNCHANGED <<validation, batch, chunker, concat, job, loop>>

GenerateNext == GenerateStart \/ GenerateChunk \/ GenerateConcatenate

GenerateSpec == GenerateInit /\ [][GenerateNext]_vars

----------------------------------------------------------------------------
\* One single-text job from the put to the end of its request, with its
\* temporary files: the uploaded reference audio of /voice-clone and the
\* output file process_job writes for a job without return_base64.

\* output_format as it reaches process_job: /tts admits the first three,
\* /voice-clone passes any string on.
JobFormats == {"wav", "mp3", "ogg", "MP3", "flac"}

\* output_format.lower()
Lower(output_format) == IF output_format = "MP3" THEN "mp3" ELSE output_format

JobRequests ==
    {[endpoint |-> e, return_base64 |-> b, output_format |-> f] :
        e \in {"tts", "voice_clone"}, b \in BOOLEAN, f \in JobFormats}

convert_audio_format_strict(output_format, ffmpeg_found, ffmpeg_ok) ==
    IF Lower(output_format) \in {"mp3", "ogg"} /\ ~(ffmpeg_found /\ ffmpeg_ok)
    THEN [raised |-> TRUE, bytes |-> "none", media_type |-> "none"]
    ELSE IF Lower(output_format) = "mp3"
    THEN [raised |-> FALSE, bytes |-> "mp3", media_type |-> "audio/mpeg"]
    ELSE IF Lower(output_format) = "ogg"
    THEN [raised |-> FALSE, bytes |-> "ogg", media_type |-> "audio/ogg"]
    ELSE [raised |-> FALSE, bytes |-> "wav", media_type |-> "audio/wav"]

\* _convert_audio_format once the waveform is saved as WAV: the bytes
\* returned and their media type.
convert_audio_format(output_format, ffmpeg_found, ffmpeg_ok) ==
    IF Lower(output_format) = "wav"
    THEN [raised |-> FALSE, bytes |-> "wav", media_type |-> "audio/wav"]
    ELSE IF Lower(output_format) = "mp3"
    THEN IF ~ffmpeg_found
         THEN [raised |-> FALSE, bytes |-> "wav", media_type |-> "audio/wav"]
         ELSE IF ffmpeg_ok
         THEN [raised |-> FALSE, bytes |-> "mp3", media_type |-> "audio/mpeg"]
         ELSE [raised |-> FALSE, bytes |-> "wav", media_type |-> "audio/wav"]
    ELSE IF Lower(output_format) = "ogg"
    THEN IF ~ffmpeg_found
         THEN [raised |-> FALSE, bytes |-> "wav", media_type |-> "audio/wav"]
         ELSE IF ffmpeg_ok
         THEN [raised |-> FALSE, bytes |-> "ogg", media_type |-> "audio/ogg"]
         ELSE [raised |-> FALSE, bytes |-> "wav", media_type |-> "audio/wav"]
    ELSE [raised |-> FALSE, bytes |-> "wav", media_type |-> "audio/wav"]

NoResult == [success |-> FALSE, bytes |-> "none", media_type |-> "none"]

\* An /tts request carries a validated output_format.
JobRequestPossible(r) ==
    r.endpoint = "tts" => r.output_format \in {"wav", "mp3", "ogg"}

\* After submit_job_and_wait has put the job: the future is pending, the
\* upload of a /voice-clone request is on disk.  What the synthesizer, the
\* saving of the waveform and ffmpeg will do is the environment's.
JobInit ==
    /\ QueueInit
    /\ validation = Unused
    /\ batch = Unused
    /\ chunker = Unused
    /\ concat = Unused
    /\ generation = Unused
    /\ loop = Unused
    /\ \E r \in JobRequests, g \in BOOLEAN, sv \in BOOLEAN, found \in BOOLEAN,
          ok \in BOOLEAN :
          /\ JobRequestPossible(r)
          /\ job = [phase |-> "queued", req |-> r, future |-> "pending",
                    generate_ok |-> g, save_ok |-> sv,
                    ffmpeg_found |-> found, ffmpeg_ok |-> ok,
                    upload |-> r.endpoint = "voice_clone", output |-> FALSE,
                    result |-> NoResult, answer |-> NoResponse]

\* The result of process_job for the job, or its exception, and the files
\* it leaves: _generate_audio, the deletion of the upload, the encoding and
\* the temporary output file.
ProcessJob(j) ==
    IF ~j.generate_ok
    THEN [raised |-> TRUE, result |-> NoResult, upload |-> j.upload, output |-> FALSE]
    ELSE IF ~j.save_ok
    THEN [raised |-> TRUE, result |-> NoResult, upload |-> FALSE, output |-> FALSE]
    ELSE IF j.req.return_base64
    THEN [raised |-> FALSE,
          result |-> [success |-> TRUE, bytes |-> "base64", media_type |-> "none"],
          upload |-> FALSE, output |-> FALSE]
    ELSE LET converted == convert_audio_format(j.req.output_format, j.ffmpeg_found,
                                               j.ffmpeg_ok)
         IN  IF converted.raised
             THEN [raised |-> TRUE, result |-> NoResult, upload |-> FALSE,
                   output |-> FALSE]
             ELSE [raised |-> FALSE,
                   result |-> [success |-> TRUE, bytes |-> converted.bytes,
                               media_type |-> converted.media_type],
                   upload |-> FALSE, output |-> TRUE]

\* queue_consumer takes the job, runs process_job and resolves the future,
\* without a suspension point in between.
JobProcess ==
    /\ job.phase = "queued"
    /\ LET done == ProcessJob(job)
       IN  job' = [job EXCEPT
               !.phase = "processed",
               !.result = done.result,
               !.upload = done.upload,
               !.output = done.output,
               !.future = IF ShouldResolve(job.future)
                          THEN SetFuture(job.future,
                                   IF done.raised THEN "exception" ELSE "result").fut
                          ELSE job.future]
    /\ UNCHANGED queueVars
    /\ UNCHANGED <<validation, batch, chunker, concat, generation, loop>>

\* asyncio.wait_for expires while the future is pending; the request ends
\* with the endpoint's answer to the 408.
JobTimeout ==
    /\ job.future = "pending"
    /\ job.answer = NoResponse
    /\ job' = [job EXCEPT
          !.future = "cancelled",
          !.answer = EndpointResponse(QueueRequest(job.req), WaitTimeout)]
    /\ UNCHANGED queueVars
    /\ UNCHANGED <<validation, batch, chunker, concat, generation, loop>>

\* The endpoint wakes on the resolved future and answers; for a result
\* without return_base64 it reads the output file and deletes it.
JobRespond ==
    /\ job.future \in {"result", "exception"}
    /\ job.answer = NoResponse
    /\ job' = [job EXCEPT
          !.answer = EndpointResponse(QueueRequest(job.req),
                        IF job.future = "result" THEN WaitReturn ELSE WaitJobError),
          !.output = IF job.future = "result" /\ ~job.req.return_base64
                     THEN FALSE ELSE @]
    /\ UNCHANGED queueVars
    /\ UNCHANGED <<validation, batch, chunker, concat, generation, loop>>

JobNext == JobProcess \/ JobTimeout \/ JobRespond

JobSpec == JobInit /\ [][JobNext]_vars

----------------------------------------------------------------------------
\* The event loop: the worker started at startup and the /health requests are
\* coroutines of one loop, and a coroutine keeps the loop's thread from one
\* suspension point to the next.  The synthesizer is called without an await.

MaxLoopJobs == 2

MaxCalls == 2

MaxHealth == 2

Nobody == [who |-> "none", id |-> 0]

TheWorker == [who |-> "worker", id |-> 0]

HealthCheck(h) == [who |-> "health", id |-> h]

CanRunInThreadPool(thread, who) == TRUE

\* The loop runs a coroutine when no other one holds the thread.
CanRun(thread, who) == thread = Nobody \/ thread = who

LoopInit ==
    /\ QueueInit
    /\ validation = Unused
    /\ batch = Unused
    /\ chunker = Unused
    /\ concat = Unused
    /\ generation = Unused
    /\ job = Unused
    /\ loop = [phase |-> "running",
               thread |-> Nobody,
               queue |-> <<>>,
               submitted |-> 0,
               worker |-> 0,
               health |-> [h \in 1..MaxHealth |-> "none"],
               generating |-> {}]

\* An endpoint puts a job whose processing calls the synthesizer c times
\* (one call, or one per segment or per text) and suspends on the future.
LoopSubmit(c) ==
    /\ loop.phase = "running"
    /\ loop.submitted < MaxLoopJobs
    /\ CanRun(loop.thread, Nobody)
    /\ loop' = [loop EXCEPT !.queue = Append(@, c), !.submitted = @ + 1]
    /\ UNCHANGED queueVars
    /\ UNCHANGED <<validation, batch, chunker, concat, generation, job>>

\* job_queue.get() returns to the worker, which enters process_job.
WorkerGet ==
    /\ loop.phase = "running"
    /\ loop.worker = 0
    /\ loop.queue # <<>>
    /\ CanRun(loop.thread, TheWorker)
    /\ loop' = [loop EXCEPT !.thread = TheWorker, !.worker = Head(loop.queue),
                            !.queue = Tail(@)]
    /\ UNCHANGED queueVars
    /\ UNCHANGED <<validation, batch, chunker, concat, generation, job>>

\* The worker enters model.generate for the job it holds.
WorkerBeginGenerate ==
    /\ loop.phase = "running"
    /\ loop.worker > 0
    /\ TheWorker \notin loop.generating
    /\ CanRun(loop.thread, TheWorker)
    /\ loop' = [loop EXCEPT !.thread = TheWorker,
                            !.generating = @ \cup {TheWorker}]
    /\ UNCHANGED queueVars
    /\ UNCHANGED <<validation, batch, chunker, concat, generation, job>>

\* model.generate returns to the worker or raises.  After the last call, or
\* an exception, the job is over and the worker is back at job_queue.get(),
\* which suspends only when the queue is empty.
WorkerEndGenerate(outcome) ==
    /\ loop.phase = "running"
    /\ TheWorker \in loop.generating
    /\ LET left == IF outcome = "ok" THEN loop.worker - 1 ELSE 0
       IN  loop' = [loop EXCEPT
               !.generating = @ \ {TheWorker},
               !.worker = IF left > 0 THEN left
                          ELSE IF loop.queue # <<>> THEN Head(loop.queue) ELSE 0,
               !.queue = IF left = 0 /\ loop.queue # <<>> THEN Tail(@) ELSE @,
               !.thread = IF left = 0 /\ loop.queue = <<>> THEN Nobody ELSE @]
    /\ UNCHANGED queueVars
    /\ UNCHANGED <<validation, batch, chunker, concat, generation, job>>

\* A GET /health arrives: its coroutine is ready to run.
HealthArrive(h) ==
    /\ loop.phase = "running"
    /\ loop.health[h] = "none"
    /\ loop' = [loop EXCEPT !.health[h] = "ready"]
    /\ UNCHANGED queueVars
    /\ UNCHANGED <<validation, batch, chunker, concat, generation, job>>

\* health_check runs and enters model.generate("Test", ...).
HealthBeginGenerate(h) ==
    /\ loop.phase = "running"
    /\ loop.health[h] = "ready"
    /\ CanRun(loop.thread, HealthCheck(h))
    /\ loop' = [loop EXCEPT !.thread = HealthCheck(h),
                            !.health[h] = "generating",
                            !.generating = @ \cup {HealthCheck(h)}]
    /\ UNCHANGED queueVars
    /\ UNCHANGED <<validation, batch, chunker, concat, generation, job>>

\* model.generate returns to health_check or raises, and it answers.
HealthEndGenerate(h, outcome) ==
    /\ loop.phase = "running"
    /\ loop.health[h] = "generating"
    /\ loop' = [loop EXCEPT
          !.thread = IF @ = HealthCheck(h) THEN Nobody ELSE @,
          !.health[h] = IF outcome = "ok" THEN "healthy" ELSE "unhealthy",
          !.generating = @ \ {HealthCheck(h)}]
    /\ UNCHANGED queueVars
    /\ UNCHANGED <<validation, batch, chunker, concat, generation, job>>

LoopNext ==
    \/ \E c \in 1..MaxCalls : LoopSubmit(c)
    \/ WorkerGet
    \/ WorkerBeginGenerate
    \/ \E outcome \in {"ok", "raised"} : WorkerEndGenerate(outcome)
    \/ \E h \in 1..MaxHealth : HealthArrive(h)
    \/ \E h \in 1..MaxHealth : HealthBeginGenerate(h)
    \/ \E h \in 1..MaxHealth, outcome \in {"ok", "raised"} : HealthEndGenerate(h, outcome)

LoopSpec == LoopInit /\ [][LoopNext]_vars

----------------------------------------------------------------------------
\* Shorthands of the properties

Finished(j) == job_state[j] \in {"Completed", "Failed"}

Answered(j) == response[j] # NoResponse

IsSingle(j) == request[j].endpoint \in {"tts", "voice_clone"}

IsPrefix(s, t) == Len(s) <= Len(t) /\ SubSeq(t, 1, Len(s)) = s

----------------------------------------------------------------------------
\* C1: in every reachable state at most one job is Running, and none is while
\* the worker waits at get(): the worker never starts a dequeued job before the
\* previous one has ended, however many jobs are queued.
C1_AtMostOneRunning ==
    /\ Cardinality({j \in Jobs : job_state[j] = "Running"}) <= 1
    /\ \A j \in Jobs : job_state[j] = "Running" => worker_pc = "process" /\ current = j

\* A job is Running while two others wait in the queue.
C1_Witness ==
    \E j \in Jobs : job_state[j] = "Running" /\ Len(job_queue) >= 2

\* C2: jobs are dequeued in arrival order, and when a job is dequeued the
\* resolution of every job that arrived before it has been attempted; this
\* also with timed-out submitters.
C2_Fifo ==
    /\ IsPrefix(started, arrival)
    /\ \A k \in 1..(Len(started) - 1) : Finished(started[k])

\* The second job was dequeued after the first, whose submitter had timed
\* out, while a third waits.
C2_Witness ==
    /\ Len(started) >= 2
    /\ future[started[1]] = "cancelled"
    /\ job_queue # <<>>

\* C3: a future that is done never changes again; it leaves pending either by
\* the worker's set_result/set_exception on the job it holds or by the
\* cancellation of the timed-out waiter; and the worker never calls
\* set_result or set_exception on a done future (no InvalidStateError).
C3_ResolvedOnce ==
    /\ [][\A j \in Jobs :
            /\ FutureDone(future[j]) => future'[j] = future[j]
            /\ (future[j] = "pending" /\ future'[j] # "pending") =>
                  \/ future'[j] \in {"result", "exception"}
                        /\ current = j /\ worker_pc = "process"
                  \/ future'[j] = "cancelled" /\ ~Answered(j) /\ Answered(j)']_vars
    /\ [](~invalid_state)

\* The worker has finished a job whose future the timeout had cancelled.
C3_Witness ==
    \E j \in Jobs : future[j] = "cancelled" /\ Finished(j)

\* C4: under fairness of the worker every queued job is eventually dequeued
\* and processed, and its future is eventually done.
C4_EveryJobDone ==
    \A j \in Jobs :
        (job_state[j] = "Queued") ~> (Finished(j) /\ FutureDone(future[j]))

\* All jobs are finished: one with a result, one with a failure, one cancelled.
C4_Witness ==
    /\ \A j \in Jobs : Finished(j) /\ FutureDone(future[j])
    /\ \E j \in Jobs : future[j] = "result"
    /\ \E j \in Jobs : future[j] = "exception"
    /\ \E j \in Jobs : future[j] = "cancelled"

\* C5: the step in which the processing of job k raises resolves k's future
\* with the failure (unless its waiter had already timed out), touches no
\* other job and leaves the worker at get(); after a failure the worker still
\* processes every job that is queued; and every job whose processing
\* returned is resolved with a result (unless its waiter had already timed
\* out).
C5_FailureIsolation ==
    /\ [][\A k \in Jobs :
            (job_state[k] = "Running" /\ job_state'[k] = "Failed") =>
                /\ future'[k] = (IF future[k] = "pending" THEN "exception" ELSE future[k])
                /\ worker_pc' = "get"
                /\ job_queue' = job_queue
                /\ \A j \in Jobs \ {k} :
                      future'[j] = future[j] /\ job_state'[j] = job_state[j]]_vars
    /\ [](\A j \in Jobs :
            /\ job_state[j] = "Completed" => future[j] \in {"result", "cancelled"}
            /\ job_state[j] = "Failed" => future[j] \in {"exception", "cancelled"})
    /\ \A j \in Jobs :
          (job_state[j] = "Queued" /\ \E k \in Jobs : job_state[k] = "Failed")
              ~> Finished(j)

\* Three jobs, the middle one failed, the first and the last resolved with a
\* result.
C5_Witness ==
    \E k \in Jobs :
        /\ job_state[k] = "Failed" /\ future[k] = "exception"
        /\ \E i, j \in Jobs : i < k /\ k < j
              /\ future[i] = "result" /\ future[j] = "result"

\* C6: once the worker is idle again, the counter equals the number of jobs
\* processed, failed ones included.
C6_CounterCountsEveryJob ==
    worker_pc = "get" =>
        total_jobs_processed = Cardinality({j \in Jobs : Finished(j)})

\* C7: the only transitions of a job are Absent -> Queued -> Running ->
\* Completed or Failed, and no job is dequeued twice.
C7_StateMachine ==
    /\ [][\A j \in Jobs :
            job_state'[j] # job_state[j] =>
                <<job_state[j], job_state'[j]>> \in
                    {<<"Absent", "Queued">>, <<"Queued", "Running">>,
                     <<"Running", "Completed">>, <<"Running", "Failed">>}]_vars
    /\ [](\A a, b \in 1..Len(started) : started[a] = started[b] => a = b)
    /\ [](\A j \in Jobs : job_state[j] = "Queued" <=> (\E a \in 1..Len(job_queue) : job_queue[a] = j))

\* One job has ended Completed and another Failed.
C7_Witness ==
    \E i, j \in Jobs : job_state[i] = "Completed" /\ job_state[j] = "Failed"

\* C8: a timeout leaves the job where it is (in the queue or with the worker);
\* the job is still processed to the end; the client never receives its
\* audio; the late resolution raises nothing in the worker; a later job whose
\* processing returns is resolved with a result unless it timed out too.
C8_TimeoutKeepsJob ==
    /\ [][\A j \in Jobs :
            (future[j] = "pending" /\ future'[j] = "cancelled") =>
                /\ job_queue' = job_queue
                /\ job_state' = job_state
                /\ current' = current]_vars
    /\ [](~invalid_state)
    /\ [](\A j \in Jobs : future[j] = "cancelled" =>
            /\ Answered(j) /\ ~response[j].audio
            /\ \A i \in Jobs : (i > j /\ job_state[i] = "Completed") =>
                  future[i] \in {"result", "cancelled"})
    /\ \A j \in Jobs : (future[j] = "cancelled") ~> Finished(j)

\* A job that timed out while queued was processed to the end, and the job
\* after it got its result.
C8_Witness ==
    \E j, i \in Jobs :
        /\ future[j] = "cancelled" /\ job_state[j] = "Completed"
        /\ i > j /\ future[i] = "result" /\ response[i].audio

\* C9: the client of a request whose wait timed out receives status 408.
C9_TimeoutStatus408 ==
    \A j \in Jobs :
        (future[j] = "cancelled" /\ Answered(j)) => response[j].status = 408

\* C10 as stated: the client of a single-text job whose synthesis failed
\* receives status 500 and no audio, whatever return_base64.
C10_FailureStatus500 ==
    \A j \in Jobs :
        (IsSingle(j) /\ future[j] = "exception" /\ Answered(j)) =>
            response[j].status = 500 /\ ~response[j].audio

\* C10 amended: the client of a single-text job whose synthesis failed never
\* receives audio; it receives status 500 when return_base64 is false and a
\* TTSResponse with success = false (status 200) when return_base64 is true.
C10_FailureExplicit ==
    \A j \in Jobs :
        (IsSingle(j) /\ future[j] = "exception" /\ Answered(j)) =>
            /\ ~response[j].audio
            /\ ~response[j].success
            /\ IF request[j].return_base64
               THEN response[j].status = 200 /\ response[j].kind = "TTSResponse"
               ELSE response[j].status = 500 /\ response[j].kind = "HTTPException"

\* Failed jobs answered on both endpoints, one with return_base64 and one
\* without.
C10_Witness ==
    \E i, j \in Jobs :
        /\ future[i] = "exception" /\ Answered(i) /\ request[i].return_base64
        /\ future[j] = "exception" /\ Answered(j) /\ ~request[j].return_base64
        /\ request[i].endpoint = "tts" /\ request[j].endpoint = "voice_clone"

----------------------------------------------------------------------------
\* Properties of the validation

\* The request is invalid in one of the ways C11 lists.
InvalidRequest(r) ==
    \/ r.exaggeration < 0 \/ r.exaggeration > 20
    \/ r.cfg_weight < 0 \/ r.cfg_weight > 10
    \/ r.temperature < 1 \/ r.temperature > 20
    \/ r.output_format \notin {"wav", "mp3", "ogg"}
    \/ r.text_len > 1000
    \/ r.n_texts > 10

\* C11: on every endpoint, an invalid request that has been handled was
\* rejected with status 422 and no job was put on the queue.
C11_InvalidNeverEnqueued ==
    (validation.phase \in {"enqueued", "rejected"} /\ InvalidRequest(validation.req)) =>
        /\ validation.phase = "rejected"
        /\ validation.status = 422
        /\ job_queue = <<>>

\* C12: a /tts request with the empty text that has been handled was rejected
\* with status 422 and no job was put on the queue.
C12_EmptyTextRejected ==
    (/\ validation.phase \in {"enqueued", "rejected"}
     /\ validation.req.endpoint = "tts"
     /\ validation.req.text_len = 0) =>
        /\ validation.phase = "rejected"
        /\ validation.status = 422
        /\ job_queue = <<>>

----------------------------------------------------------------------------
\* Properties of the batch loop

RECURSIVE SumSuccessful(_)
\* Sum of duration_seconds over the entries with success = true.
SumSuccessful(results) ==
    IF results = <<>> THEN 0
    ELSE (IF Head(results).success THEN Head(results).duration_seconds ELSE 0)
            + SumSuccessful(Tail(results))

\* C13: the texts are processed one by one in array order (after k passes the
\* result list has k entries), entry i is the outcome of text i (failed iff a
\* step of text i raised, with text i's duration when it succeeded), and the
\* returned list has one entry per text.
C13_EveryTextAttempted ==
    /\ Len(batch.results) = batch.i - 1
    /\ batch.i <= Len(batch.texts) + 1
    /\ \A k \in 1..Len(batch.results) :
          /\ batch.results[k].success = (batch.texts[k].fail = "none")
          /\ batch.results[k].duration_seconds =
                (IF batch.texts[k].fail = "none" THEN batch.texts[k].dur ELSE 0)
    /\ batch.phase = "returned" => Len(batch.results) = Len(batch.texts)

\* A returned batch of three texts: the first failed in synthesis, the second
\* in encoding, and the third, processed after them, succeeded.
C13_Witness ==
    /\ batch.phase = "returned"
    /\ Len(batch.texts) = 3
    /\ batch.texts[1].fail = "synthesis" /\ ~batch.results[1].success
    /\ batch.texts[2].fail = "encoding" /\ ~batch.results[2].success
    /\ batch.results[3].success

\* C14: a batch job that returns reports success = true and its future is
\* resolved with a result, whatever the number of failed elements.
C14_BatchSucceeds ==
    batch.phase = "returned" => batch.success /\ batch.future = "result"

\* A returned batch of at least two texts that all failed.
C14_Witness ==
    /\ batch.phase = "returned"
    /\ Len(batch.texts) >= 2
    /\ \A k \in 1..Len(batch.results) : ~batch.results[k].success

\* C15: in the returned batch, total_duration is the sum of duration_seconds
\* over the entries with success = true.
C15_TotalDuration ==
    batch.phase = "returned" => batch.total_duration = SumSuccessful(batch.results)

----------------------------------------------------------------------------
\* Properties of the chunker

Chunked == chunker.phase = "done"

\* The tier of the chunked text.
Comfortable == DurationWithin(chunker.text, COMFORTABLE_DURATION)
OverHardLimit == ~DurationWithin(chunker.text, MAX_DURATION_HARD_LIMIT)
MiddleTier == ~Comfortable /\ ~OverHardLimit

HasSpace(t) == \E i \in 1..Len(t) : IsSpace(t[i])

\* s is t without its leading and trailing whitespace.
Trimmed(t, s) ==
    \E a \in 0..Len(t), b \in 0..Len(t) :
        /\ a <= b
        /\ s = SubSeq(t, a + 1, b)
        /\ \A i \in 1..Len(t) : (i <= a \/ i > b) => IsSpace(t[i])
        /\ s # <<>> => ~IsSpace(s[1]) /\ ~IsSpace(s[Len(s)])

\* A word boundary (whitespace, a paragraph break included) or a sentence
\* boundary (the end of a run of sentence punctuation) of t with something
\* other than whitespace on both sides.
HasBoundary(t) ==
    \E i \in 1..Len(t) :
        /\ \E j \in 1..Len(t) : j > i /\ ~IsSpace(t[j])
        /\ \/ IsSpace(t[i]) /\ \E j \in 1..Len(t) : j < i /\ ~IsSpace(t[j])
           \/ t[i].k = "dot" /\ t[i + 1].k # "dot"

\* A sentence boundary (sentence punctuation) or a paragraph boundary (a blank
\* line) somewhere in t.
HasSentenceOrParagraphBoundary(t) ==
    \/ \E i \in 1..Len(t) : t[i].k = "dot"
    \/ \E i \in 1..Len(t), j \in 1..Len(t) :
          /\ i < j
          /\ t[i].k = "nl"
          /\ t[j].k = "nl"
          /\ \A m \in i..j : IsSpace(t[m])

RECURSIVE Concat(_)
Concat(segments) ==
    IF segments = <<>> THEN <<>> ELSE Head(segments) \o Concat(Tail(segments))

\* The non-whitespace characters of t in order, as maximal runs of one kind
\* of character.
RECURSIVE Runs(_)
Runs(t) ==
    IF t = <<>> THEN <<>>
    ELSE IF IsSpace(Head(t)) THEN Runs(Tail(t))
    ELSE LET rest == Runs(Tail(t))
         IN  IF rest # <<>> /\ Head(rest).k = Head(t).k
             THEN <<[k |-> Head(t).k, n |-> Head(t).n + Head(rest).n]>> \o Tail(rest)
             ELSE <<Head(t)>> \o rest

\* C16: when the estimated duration of the text exceeds the hard limit, every
\* returned segment has an estimated duration of at most the hard limit, or
\* is one single word-token (it holds no whitespace) that alone is longer
\* than the hard limit.
C16_NoSegmentOverHardLimit ==
    (Chunked /\ OverHardLimit) =>
        \A i \in 1..Len(chunker.segments) :
            \/ DurationWithin(chunker.segments[i], MAX_DURATION_HARD_LIMIT)
            \/ ~HasSpace(chunker.segments[i])

\* A text over the hard limit with whitespace in it, cut into several
\* segments, one of them a single token longer than the hard limit.
C16_Witness ==
    /\ Chunked
    /\ OverHardLimit
    /\ HasSpace(Strip(chunker.text))
    /\ Len(chunker.segments) >= 2
    /\ \E i \in 1..Len(chunker.segments) :
          /\ ~DurationWithin(chunker.segments[i], MAX_DURATION_HARD_LIMIT)
          /\ ~HasSpace(chunker.segments[i])

C18_ChunkingMandatory ==
    (Chunked /\ OverHardLimit /\ HasBoundary(chunker.text)) =>
        Len(chunker.segments) >= 2

\* A text over the hard limit whose only boundary is one blank between two
\* words, returned as two segments.
C18_Witness ==
    /\ Chunked
    /\ OverHardLimit
    /\ chunker.text = <<Word(250), Sp, Word(250)>>
    /\ chunker.segments = <<<<Word(250)>>, <<Word(250)>>>>

\* C19: when the estimated duration of the text is above the comfortable
\* duration and at most the hard limit, the result is either at least two
\* segments, each of estimated duration at most the hard limit, or exactly
\* one segment, the text without its leading and trailing whitespace; every
\* segment but the last ends with sentence punctuation (no split at clause or
\* word level), and a text with no paragraph or sentence boundary is returned
\* as one segment.
C19_GentleOrWhole ==
    (Chunked /\ MiddleTier) =>
        /\ \/ /\ Len(chunker.segments) >= 2
              /\ \A i \in 1..Len(chunker.segments) :
                    DurationWithin(chunker.segments[i], MAX_DURATION_HARD_LIMIT)
           \/ /\ Len(chunker.segments) = 1
              /\ Trimmed(chunker.text, chunker.segments[1])
        /\ \A i \in 1..(Len(chunker.segments) - 1) :
              chunker.segments[i][Len(chunker.segments[i])].k = "dot"
        /\ ~HasSentenceOrParagraphBoundary(chunker.text) =>
              Len(chunker.segments) = 1

\* A text of the middle tier that the gentle chunking cuts at a sentence end.
C19_Witness ==
    /\ Chunked
    /\ MiddleTier
    /\ Len(chunker.segments) >= 2

\* C20: the non-whitespace characters of the returned segments, read in
\* order, are the non-whitespace characters of the text.
C20_ContentPreserved ==
    Chunked => Runs(Concat(chunker.segments)) = Runs(chunker.text)

\* A text with sentence and clause punctuation cut into three segments or more.
C20_Witness ==
    /\ Chunked
    /\ \E i \in 1..Len(chunker.text) : chunker.text[i].k = "dot"
    /\ \E i \in 1..Len(chunker.text) : chunker.text[i].k = "com"
    /\ Len(chunker.segments) >= 3

\* The segments joined in order with one blank between them.
RECURSIVE JoinWithSpace(_)
JoinWithSpace(segments) ==
    IF segments = <<>> THEN <<>>
    ELSE IF Len(segments) = 1 THEN Head(segments)
    ELSE Head(segments) \o <<Sp>> \o JoinWithSpace(Tail(segments))

\* The words of t (maximal runs of non-whitespace characters), each as its
\* characters.
WordSequence(t) ==
    LET words == SplitWords(t)
    IN  [i \in 1..Len(words) |-> Runs(words[i])]

\* C21: the segments joined in order with whitespace and split on whitespace
\* give the words of the text: the same words in the same order, none split
\* in two and none merged.
C21_WordSequencePreserved ==
    Chunked => WordSequence(JoinWithSpace(chunker.segments)) = WordSequence(chunker.text)

\* The text is two paragraphs, each estimated at 30 seconds.
TwoParagraphsOf30 ==
    LET paragraphs == SplitParagraphs(chunker.text)
    IN  /\ Len(paragraphs) = 2
        /\ \A i \in 1..2 :
              estimate_audio_duration(paragraphs[i]) = 30 * ESTIMATED_CHARS_PER_SECOND

\* C22: a text of two paragraphs, each estimated at 30 seconds, is returned as
\* exactly two segments, the first paragraph and the second paragraph.
C22_TwoParagraphsTwoSegments ==
    (Chunked /\ TwoParagraphsOf30) =>
        chunker.segments = <<Strip(SplitParagraphs(chunker.text)[1]),
                             Strip(SplitParagraphs(chunker.text)[2])>>

\* One token: characters of a word only, no whitespace, no punctuation.
OneToken(t) == t # <<>> /\ \A i \in 1..Len(t) : t[i].k = "w"

\* C23: a text that is one indivisible token is returned as exactly one
\* segment, the token itself, whatever its length.
C23_TokenIsOneSegment ==
    (Chunked /\ OneToken(chunker.text)) => chunker.segments = <<chunker.text>>

\* A token longer than the hard limit, returned whole.
C23_Witness ==
    /\ Chunked
    /\ OneToken(chunker.text)
    /\ CharCount(chunker.text) > MAX_DURATION_HARD_LIMIT * ESTIMATED_CHARS_PER_SECOND
    /\ Len(chunker.segments) = 1

Blank(t) == \A i \in 1..Len(t) : IsSpace(t[i])

StartsWith(t, s) == Len(s) <= Len(t) /\ SubSeq(t, 1, Len(s)) = s

\* The segments are consecutive spans of t, with only whitespace before,
\* between and after them.
RECURSIVE SpansOf(_, _)
SpansOf(t, segments) ==
    IF segments = <<>> THEN Blank(t)
    ELSE \E a \in 0..Len(t) :
            /\ Blank(SubSeq(t, 1, a))
            /\ StartsWith(SubSeq(t, a + 1, Len(t)), Head(segments))
            /\ SpansOf(SubSeq(t, a + Len(Head(segments)) + 1, Len(t)), Tail(segments))

\* C25: for a text that is not blank, every segment is non-empty, has no
\* leading or trailing whitespace, and is a span of the text with the
\* whitespace inside it unchanged.
C25_SegmentsAreTrimmedSpans ==
    (Chunked /\ ~Blank(chunker.text)) =>
        /\ \A i \in 1..Len(chunker.segments) :
              /\ chunker.segments[i] # <<>>
              /\ ~IsSpace(chunker.segments[i][1])
              /\ ~IsSpace(chunker.segments[i][Len(chunker.segments[i])])
        /\ SpansOf(chunker.text, chunker.segments)

\* C26 as stated: for "Hi there." the estimator counts 10 characters and the
\* text is returned as the single segment "Hi there.".
C26_HiThereTenCharacters ==
    (Chunked /\ chunker.text = HiThere) =>
        /\ estimate_audio_duration(chunker.text) = 10
        /\ chunker.segments = <<HiThere>>

\* C26: for "Hi there." the estimator counts 9 characters (0.75 s at 12
\* characters per second) and the text is returned as the single segment
\* "Hi there.".
C26_HiThereNineCharacters ==
    (Chunked /\ chunker.text = HiThere) =>
        /\ estimate_audio_duration(chunker.text) = 9
        /\ chunker.segments = <<HiThere>>

\* "Hi there." has been chunked.
C26_Witness ==
    /\ Chunked
    /\ chunker.text = HiThere
    /\ Len(chunker.segments) = 1

----------------------------------------------------------------------------
\* Properties of the concatenation

ConcatDone == concat.phase \in {"returned", "raised"}

\* C27: concatenating an empty list raises an error and leaves the output
\* untouched; concatenating a list of one waveform returns with an output
\* equal to that waveform, whether or not the external encoder is there.
C27_EmptyFailsSingleCopies ==
    ConcatDone =>
        /\ concat.audio_files = <<>> =>
              /\ concat.phase = "raised"
              /\ concat.raised = "ValueError"
              /\ concat.output = NoOutput
        /\ Len(concat.audio_files) = 1 =>
              /\ concat.phase = "returned"
              /\ concat.output = concat.audio_files[1]

\* One waveform copied although ffmpeg is not installed.
C27_Witness ==
    /\ concat.phase = "returned"
    /\ Len(concat.audio_files) = 1
    /\ ~concat.ffmpeg_found
    /\ concat.output = concat.audio_files[1]

\* Some file's sample rate differs from the target sample rate (as it does
\* when two files differ from each other).
SampleRateMismatch ==
    \E i \in 1..Len(concat.audio_files) : concat.audio_files[i].sr # concat.sample_rate

\* C28: concatenating waveforms whose sample rates differ from each other or
\* from the target sample rate raises an error.
C28_MismatchFails ==
    (ConcatDone /\ SampleRateMismatch) => concat.phase = "raised"

----------------------------------------------------------------------------
\* Properties of the generation

GenerationOver == generation.phase \in {"returned", "raised"}

\* The job has a reference-audio handle.
HasHandle == generation.audio_file_path \notin {NoPath, ""}

\* C29: for a text estimated at no more than the hard limit, exactly one
\* synthesizer call is made, with the whole unmodified text and with the
\* reference-audio handle exactly when the job has one, and neither the
\* chunker nor the concatenator is invoked.
C29_OneDirectCall ==
    DurationWithin(generation.text, MAX_DURATION_HARD_LIMIT) =>
        /\ ~generation.chunked
        /\ ~generation.concatenated
        /\ IF GenerationOver
           THEN generation.calls =
                   <<[text |-> generation.text,
                      audio_prompt_path |-> IF HasHandle
                                            THEN generation.audio_file_path
                                            ELSE NoPath]>>
           ELSE generation.calls = <<>>

\* A text above the comfortable duration and within the hard limit, with
\* whitespace around it, synthesized in one call with the handle.
C29_Witness ==
    /\ generation.phase = "returned"
    /\ ~DurationWithin(generation.text, COMFORTABLE_DURATION)
    /\ DurationWithin(generation.text, MAX_DURATION_HARD_LIMIT)
    /\ IsSpace(generation.text[1])
    /\ HasHandle
    /\ Len(generation.calls) = 1

\* C30: for a text estimated above the hard limit, the synthesizer calls are
\* made for the segments of the chunker in segment order, one call per
\* segment (all of them when the generation returns), and the
\* reference-audio handle is passed to the call of the first segment only.
C30_OneCallPerSegmentInOrder ==
    (generation.phase \notin {"unused", "start"}
        /\ ~DurationWithin(generation.text, MAX_DURATION_HARD_LIMIT)) =>
        /\ generation.chunks = chunk_text_smartly(generation.text, COMFORTABLE_DURATION)
        /\ Len(generation.calls) <= Len(generation.chunks)
        /\ \A k \in 1..Len(generation.calls) :
              /\ generation.calls[k].text = generation.chunks[k]
              /\ generation.calls[k].audio_prompt_path =
                    IF k = 1 /\ HasHandle THEN generation.audio_file_path ELSE NoPath
        /\ generation.phase = "loop" => Len(generation.calls) = generation.i
        /\ generation.phase = "returned" =>
              Len(generation.calls) = Len(generation.chunks)

\* Three segments or more synthesized and concatenated for a job with a handle.
C30_Witness ==
    /\ generation.phase = "returned"
    /\ generation.concatenated
    /\ HasHandle
    /\ Len(generation.chunks) >= 3
    /\ Len(generation.calls) = Len(generation.chunks)

\* C31: when the synthesizer fails on a segment of a chunked job, the failing
\* call is the last synthesizer call, the concatenator is not called, no
\* waveform is returned and the job's future holds the failure.
C31_SegmentFailureFailsJob ==
    (generation.chunked /\ generation.failure = "generate") =>
        /\ generation.phase = "raised"
        /\ Len(generation.calls) = generation.i + 1
        /\ ~generation.concatenated
        /\ generation.wav = <<>>
        /\ generation.future = "exception"

\* The synthesizer failed on the second of three segments or more.
C31_Witness ==
    /\ generation.chunked
    /\ generation.failure = "generate"
    /\ Len(generation.chunks) >= 3
    /\ Len(generation.calls) = 2
    /\ generation.future = "exception"

\* The waveforms of segments 1..n one after the other: segment k is k samples
\* marked k.
RECURSIVE JoinedWaveforms(_)
JoinedWaveforms(n) ==
    IF n = 0 THEN <<>> ELSE JoinedWaveforms(n - 1) \o [j \in 1..n |-> n]

\* C32: the waveform returned for a chunked job is the waveforms of the
\* segments in segment order with nothing inserted, removed or reordered.
C32_WaveformIsSegmentsInOrder ==
    (generation.chunked /\ generation.phase = "returned") =>
        generation.wav = JoinedWaveforms(Len(generation.chunks))

\* Three segments or more synthesized, concatenated and returned.
C32_Witness ==
    /\ generation.chunked
    /\ generation.phase = "returned"
    /\ Len(generation.chunks) >= 3
    /\ Len(generation.wav) >= 6

\* C37: the chunker is invoked only for a text estimated above the hard limit
\* and returns at least one segment, and the concatenator is never called
\* with an empty list.
C37_ChunkerOnlyOverHardLimit ==
    /\ generation.chunked =>
          /\ ~DurationWithin(generation.text, MAX_DURATION_HARD_LIMIT)
          /\ Len(generation.chunks) >= 1
    /\ generation.concatenated => generation.temp_audio_files # <<>>

\* The concatenator called with the file of the only segment, a token longer
\* than the hard limit.
C37_Witness ==
    /\ generation.chunked
    /\ generation.concatenated
    /\ Len(generation.temp_audio_files) = 1
    /\ OneToken(generation.text)

\* C39: when the chunked path has ended, by return or by an exception, no
\* temporary file it created is left.
C39_NoTemporaryFileLeft ==
    (generation.chunked /\ GenerationOver) => generation.files = {}

\* A paragraph break in t: two newlines with nothing but whitespace between.
HasParagraphBreak(t) ==
    \E i \in 1..Len(t), j \in 1..Len(t) :
        /\ i < j
        /\ t[i].k = "nl"
        /\ t[j].k = "nl"
        /\ \A m \in i..j : IsSpace(t[m])

\* C38: for a text above the comfortable duration and within the hard limit
\* that has a paragraph break, the paragraph loop of the gentle chunking never
\* closes a chunk, and the result is exactly one segment, the text without
\* its leading and trailing whitespace.
C38_ParagraphsOfMiddleTierStayWhole ==
    (Chunked /\ MiddleTier /\ HasParagraphBreak(chunker.text)) =>
        /\ Len(GentleParagraphsLoop(SplitParagraphs(chunker.text), 1, <<>>, <<>>)) <= 1
        /\ Len(chunker.segments) = 1
        /\ Trimmed(chunker.text, chunker.segments[1])

\* A text of the middle tier with two paragraphs and a sentence end,
\* returned whole.
C38_Witness ==
    /\ Chunked
    /\ MiddleTier
    /\ HasParagraphBreak(Strip(chunker.text))
    /\ \E i \in 1..Len(chunker.text) : chunker.text[i].k = "dot"
    /\ Len(chunker.segments) = 1


\* The job asks for mp3 or ogg as a file and ffmpeg is missing or exits with
\* an error, while the synthesis and the saving of the waveform succeed.
EncoderFails ==
    /\ Lower(job.req.output_format) \in {"mp3", "ogg"}
    /\ ~job.req.return_base64
    /\ job.generate_ok
    /\ job.save_ok
    /\ ~(job.ffmpeg_found /\ job.ffmpeg_ok)

JobProcessed == job.phase = "processed"

RequestEnded == job.phase # "unused" /\ job.answer # NoResponse

\* C33: a job for mp3 or ogg whose encoder is missing or fails is not failed
\* by it: its result has success, wav bytes and the media type audio/wav, the
\* future never holds an exception, and it holds the result unless the wait
\* had timed out before.
C33_EncoderFailureFallsBackToWav ==
    (JobProcessed /\ EncoderFails) =>
        /\ job.result = [success |-> TRUE, bytes |-> "wav", media_type |-> "audio/wav"]
        /\ job.future \in {"result", "cancelled"}
        /\ (job.answer = NoResponse => job.future = "result")

\* An mp3 job whose ffmpeg run exits with an error, resolved with the result
\* and answered with the audio.
C33_Witness ==
    /\ JobProcessed
    /\ EncoderFails
    /\ job.req.output_format = "mp3"
    /\ job.ffmpeg_found
    /\ job.future = "result"
    /\ job.result.media_type = "audio/wav"
    /\ job.answer.status = 200

\* C35: once the future of a /voice-clone job holds a result or an
\* exception, the uploaded reference audio file is gone.
C35_UploadGoneOnceResolved ==
    (job.phase # "unused" /\ job.req.endpoint = "voice_clone"
        /\ job.future \in {"result", "exception"}) => ~job.upload

\* C36: once a job without return_base64 is processed and its request has
\* ended, by a response or by the timeout of the wait, the temporary output
\* file of process_job is gone.
C36_OutputFileGoneAfterRequest ==
    (JobProcessed /\ RequestEnded /\ ~job.req.return_base64) => ~job.output


\* C34: at most one call of the synthesizer is in progress, the worker's
\* calls and those of the /health requests counted together.
C34_OneSynthesizerCallAtATime ==
    loop.phase = "running" => Cardinality(loop.generating) <= 1

\* A /health request inside the synthesizer while a job waits in the queue
\* and another /health request is ready.
C34_Witness ==
    /\ loop.phase = "running"
    /\ \E h \in 1..MaxHealth :
          /\ HealthCheck(h) \in loop.generating
          /\ \E g \in 1..MaxHealth : loop.health[g] = "ready"
    /\ loop.queue # <<>>

============================================================================
